---- MODULE Spec2Model ----
(***************************************************************************)
(* The video-project API of main.py: create / get / update / render over   *)
(* the "videoproject" collection of a MongoDB database.                    *)
(*                                                                         *)
(* Python values are tagged records: None, str (a sequence of text         *)
(* chunks, so that f-strings concatenate), list, a pydantic Scene object   *)
(* and the dict a Scene dumps to.  Identifier strings are sequences of     *)
(* one-character strings; an ObjectId is its 12 bytes.                     *)
(***************************************************************************)
EXTENDS Integers, Sequences, FiniteSets, TLC

\* Number of API calls of a run (each call draws one server timestamp).
MaxCalls == 3

\* ------------------------------------------------------------ Python values

PyNone == [py |-> "None"]
PyStr(chunks) == [py |-> "str", s |-> chunks]
PyList(xs) == [py |-> "list", items |-> xs]
SceneObj(name) == [py |-> "Scene", scene |-> name]
SceneDict(name) == [py |-> "dict", scene |-> name]

\* ------------------------------------------------------------ identifiers

\* bson.ObjectId: a 12-byte value, written as 24 hexadecimal characters.
IdLen == 24

HexDigits == <<"0", "1", "2", "3", "4", "5", "6", "7",
               "8", "9", "a", "b", "c", "d", "e", "f">>

HexUpper == <<"A", "B", "C", "D", "E", "F">>

HexChars ==
    {HexDigits[i] : i \in 1..Len(HexDigits)} \cup {HexUpper[i] : i \in 1..Len(HexUpper)}

IsHexChar(c) == c \in HexChars

\* bytes.fromhex reads upper- and lower-case digits alike.
HexValue ==
    [c \in HexChars |->
        IF \E i \in 1..Len(HexDigits) : HexDigits[i] = c
        THEN (CHOOSE i \in 1..Len(HexDigits) : HexDigits[i] = c) - 1
        ELSE (CHOOSE i \in 1..Len(HexUpper) : HexUpper[i] = c) + 9]

HexVal(c) == HexValue[c]

\* ObjectId(raw) raises InvalidId unless raw is 24 hexadecimal characters.
ObjectIdValid(raw) ==
    Len(raw) = IdLen /\ \A i \in 1..Len(raw) : IsHexChar(raw[i])

\* ObjectId(raw): the bytes the 24 characters spell.
ObjectId(raw) ==
    [i \in 1..(IdLen \div 2) |-> 16 * HexVal(raw[2 * i - 1]) + HexVal(raw[2 * i])]

\* str(oid): the bytes in lower-case hexadecimal.
OidStr(oid) ==
    [i \in 1..(2 * Len(oid)) |->
        IF i % 2 = 1 THEN HexDigits[(oid[(i + 1) \div 2] \div 16) + 1]
                     ELSE HexDigits[(oid[i \div 2] % 16) + 1]]

Zeros(n) == [i \in 1..n |-> "0"]

\* Identifier strings a client sends: two canonical ones, the second also in
\* upper case, one of the right length with a non-hex character, one too
\* short and one too long.
RawIds ==
    {Zeros(IdLen - 1) \o <<c>> : c \in {"1", "a", "A", "g"}}
        \cup {Zeros(IdLen - 1), Zeros(IdLen + 1)}

\* Identifiers the store can assign on insert.
OidPool == {ObjectId(Zeros(IdLen - 1) \o <<c>>) : c \in {"1", "a"}}

\* ------------------------------------------------------------ payloads

S1 == "scene1"
S2 == "scene2"

Title1 == PyStr(<<"123 Main St">>)
Title2 == PyStr(<<"456 Oak Ave">>)
Track == PyStr(<<"track.mp3">>)
Updated == PyStr(<<"Updated">>)
ClientUrl == PyStr(<<"https://cdn.example.org/mine.mp4">>)
Draft == PyStr(<<"draft">>)
Queued == PyStr(<<"queued">>)
Ready == PyStr(<<"ready">>)

\* Bodies of POST /api/projects: the required title alone, with one
\* optional field, and with all of them.
CreatePayloads ==
    LET optional == [scenes |-> PyList(<<SceneObj(S1)>>), music |-> Track,
                     status |-> Ready, output_url |-> ClientUrl]
    IN  {[title |-> Title1]}
            \cup {(k :> optional[k]) @@ [title |-> Title1] : k \in DOMAIN optional}
            \cup {optional @@ [title |-> Title1]}

\* Values a body of PUT /api/projects/{id} sends for each field (every
\* field is optional and nullable).
UpdateValues ==
    [title |-> {PyNone, Title2},
     description |-> {Updated},
     scenes |-> {PyList(<<>>), PyList(<<SceneObj(S2), SceneObj(S1)>>)},
     music |-> {PyNone},
     status |-> {Draft, Queued},
     output_url |-> {ClientUrl}]

\* Bodies of PUT /api/projects/{id}: the empty one, those sending one
\* field, and two sending a value beside a null.
UpdatePayloads ==
    {<<>>}
        \cup UNION {{k :> v : v \in UpdateValues[k]} : k \in DOMAIN UpdateValues}
        \cup {[title |-> Title2, music |-> PyNone],
              [description |-> Updated, title |-> PyNone]}

\* ------------------------------------------------------------ pydantic

\* BaseModel.model_dump of a field value: nested models become dicts.
DumpValue(v) ==
    IF v.py = "list"
    THEN PyList([i \in 1..Len(v.items) |->
                    IF v.items[i].py = "Scene" THEN SceneDict(v.items[i].scene)
                    ELSE v.items[i]])
    ELSE v

\* Scene(**s): the model validated from a stored dict.
SceneOf(s) == SceneObj(s.scene)

VARIABLES
    store,      \* the videoproject collection: ObjectId -> document
    now,        \* the server clock: timestamps handed out so far
    last,       \* the last call: its request and its response
    rendered,   \* per ObjectId, the output_urls successful renders returned
    conc        \* requests in flight at once: each one's position, the
                \* order of their writes, and the store they started from

vars == <<store, now, last, rendered, conc>>

\* ------------------------------------------------------------ the store

\* dict.get(key, default)
DictGet(d, k, default) == IF k \in DOMAIN d THEN d[k] ELSE default

\* collection.find_one({"_id": oid}): the document, or None.
FindOne(st, oid) == IF oid \in DOMAIN st THEN st[oid] ELSE PyNone

\* {"$set": fields}: the keys of fields overwritten, every other key kept.
ApplySet(doc, fields) ==
    [k \in DOMAIN doc \cup DOMAIN fields |->
        IF k \in DOMAIN fields THEN fields[k] ELSE doc[k]]

\* {"$currentDate": {"updated_at": True}}
ApplyCurrentDate(doc, t) == ApplySet(doc, [updated_at |-> t])

\* The fields a VideoProject dumps to: what the client sent, and the
\* schema's defaults for the rest.
VideoProjectDump(project) ==
    [title |-> project.title,
     description |-> DictGet(project, "description", PyNone),
     scenes |-> DumpValue(DictGet(project, "scenes", PyList(<<>>))),
     music |-> DictGet(project, "music", PyNone),
     status |-> DictGet(project, "status", Draft),
     output_url |-> DictGet(project, "output_url", PyNone)]

\* create_document(coll, project): the dumped model, timestamped, inserted
\* under a fresh identifier; returns the store and str(inserted_id).
create_document(st, oid, project, t) ==
    [store |-> (oid :> ApplySet(VideoProjectDump(project),
                                [_id |-> oid, created_at |-> t, updated_at |-> t]))
                    @@ st,
     inserted_id |-> OidStr(oid)]

\* ------------------------------------------------------------ handlers

doc_to_out(d) ==
    [id |-> PyStr(OidStr(d._id)),
     title |-> d.title,
     description |-> d.description,
     scenes |-> LET ss == DictGet(d, "scenes", PyList(<<>>)).items
                IN  PyList([i \in 1..Len(ss) |-> SceneOf(ss[i])]),
     music |-> d.music,
     status |-> DictGet(d, "status", Draft),
     output_url |-> d.output_url]

\* POST /api/projects.  oid is the identifier the store assigns.
create_project(st, oid, project, t) ==
    LET made == create_document(st, oid, project, t)
        doc == FindOne(made.store, ObjectId(made.inserted_id))
    IN  [code |-> 200, out |-> doc_to_out(doc), store |-> made.store, calls |-> 2]

\* get_project without the try/except of lines 83-86: the identifier is
\* matched as text, and whatever matches nothing is "not found".
get_project_unvalidated(st, project_id) ==
    IF \E o \in DOMAIN st : OidStr(o) = project_id
    THEN [code |-> 200,
          out |-> doc_to_out(st[CHOOSE o \in DOMAIN st : OidStr(o) = project_id]),
          store |-> st, calls |-> 1]
    ELSE [code |-> 404, out |-> PyNone, store |-> st, calls |-> 1]

\* GET /api/projects/{project_id}
get_project(st, project_id) ==
    IF ~ObjectIdValid(project_id)
    THEN [code |-> 400, out |-> PyNone, store |-> st, calls |-> 0]
    ELSE LET doc == FindOne(st, ObjectId(project_id))
         IN  IF doc = PyNone
             THEN [code |-> 404, out |-> PyNone, store |-> st, calls |-> 1]
             ELSE [code |-> 200, out |-> doc_to_out(doc), store |-> st, calls |-> 1]

\* Line 108 without its "if v is not None".
UpdateDocKeepNone(payload) == [k \in DOMAIN payload |-> DumpValue(payload[k])]

\* update_doc after line 108: the sent fields, dumped, without the None ones.
UpdateDoc(payload) ==
    LET dumped == [k \in DOMAIN payload |-> DumpValue(payload[k])]
    IN  [k \in {j \in DOMAIN dumped : dumped[j] # PyNone} |-> dumped[k]]

\* s.model_dump() of line 110 exists on a Scene, not on a dict.
HasModelDump(s) == s.py = "Scene"

\* Lines 109-110 raise AttributeError on the first element without
\* model_dump.
ScenesRaise(update_doc) ==
    "scenes" \in DOMAIN update_doc
        /\ \E i \in 1..Len(update_doc.scenes.items) :
                ~HasModelDump(update_doc.scenes.items[i])

\* Lines 109-110 when nothing raises.
ScenesDumped(update_doc) ==
    IF "scenes" \in DOMAIN update_doc
    THEN ApplySet(update_doc,
            [scenes |-> PyList([i \in 1..Len(update_doc.scenes.items) |->
                            SceneDict(update_doc.scenes.items[i].scene)])])
    ELSE update_doc

\* find_one_and_update(filter, {"$set", "$currentDate"}), one atomic store
\* operation: the store after it.
FindOneAndUpdate(st, oid, fields, t) ==
    IF oid \in DOMAIN st
    THEN [st EXCEPT ![oid] = ApplyCurrentDate(ApplySet(@, fields), t)]
    ELSE st

\* PUT /api/projects/{project_id}
update_project(st, project_id, payload, t) ==
    IF ~ObjectIdValid(project_id)
    THEN [code |-> 400, out |-> PyNone, store |-> st, calls |-> 0]
    ELSE LET oid == ObjectId(project_id)
             update_doc == UpdateDoc(payload)
         IN  IF ScenesRaise(update_doc)
             THEN [code |-> 500, out |-> PyNone, store |-> st, calls |-> 0]
             ELSE LET st2 == FindOneAndUpdate(st, oid, ScenesDumped(update_doc), t)
                      res == FindOne(st2, oid)
                  IN  IF res = PyNone
                      THEN [code |-> 404, out |-> PyNone, store |-> st2, calls |-> 1]
                      ELSE [code |-> 200, out |-> doc_to_out(res), store |-> st2,
                            calls |-> 1]

\* f"https://files.example.com/videos/{req.project_id}.mp4"
VideoUrl(project_id) ==
    PyStr(<<"https://files.example.com/videos/">> \o project_id \o <<".mp4">>)

\* The $set of line 139 with the status of the response ("queued") in
\* place of "ready".
RenderSetQueued(project_id) ==
    [status |-> Queued, output_url |-> VideoUrl(project_id)]

\* The $set of line 139.
RenderSet(project_id) == [status |-> Ready, output_url |-> VideoUrl(project_id)]

\* update_one(filter, {"$set": fields}): the store after it.
UpdateOne(st, oid, fields) ==
    IF oid \in DOMAIN st THEN [st EXCEPT ![oid] = ApplySet(@, fields)] ELSE st

\* Line 139 as a write-back of the document read at line 133 with the two
\* fields changed (replace_one), not a $set on the stored document.
RenderWriteBack(st, project_id, project) ==
    IF ObjectId(project_id) \in DOMAIN st
    THEN [st EXCEPT ![ObjectId(project_id)] = ApplySet(project, RenderSet(project_id))]
    ELSE st

\* Line 139: the store after render's one write; project is the document
\* line 133 read.
RenderWrite(st, project_id, project) ==
    UpdateOne(st, ObjectId(project_id), RenderSet(project_id))

\* POST /api/render
render_video(st, project_id) ==
    IF ~ObjectIdValid(project_id)
    THEN [code |-> 400, out |-> PyNone, store |-> st, calls |-> 0]
    ELSE LET oid == ObjectId(project_id)
             project == FindOne(st, oid)
         IN  IF project = PyNone
             THEN [code |-> 404, out |-> PyNone, store |-> st, calls |-> 1]
             ELSE [code |-> 200,
                   out |-> [status |-> Queued,
                            project_id |-> PyStr(project_id),
                            output_url |-> VideoUrl(project_id)],
                   store |-> RenderWrite(st, project_id, project),
                   calls |-> 2]

\* ------------------------------------------------------------ the API, one call at a time

NoCall == [op |-> "none", code |-> 0]

\* No requests in flight at once.
Sequential == [calls |-> <<>>, order |-> <<>>, store0 |-> <<>>]

Init ==
    /\ store = <<>>
    /\ now = 0
    /\ last = NoCall
    /\ rendered = [o \in OidPool |-> {}]
    /\ conc = Sequential

Create ==
    /\ now < MaxCalls
    /\ \E project \in CreatePayloads, oid \in OidPool \ DOMAIN store :
          \E r \in {create_project(store, oid, project, now + 1)} :
              /\ store' = r.store
              /\ last' = [op |-> "create", payload |-> project, code |-> r.code,
                          out |-> r.out, calls |-> r.calls, time |-> now + 1]
    /\ now' = now + 1
    /\ UNCHANGED <<rendered, conc>>

Get ==
    /\ now < MaxCalls
    /\ \E project_id \in RawIds :
          \E r \in {get_project(store, project_id)} :
              /\ store' = r.store
              /\ last' = [op |-> "get", raw |-> project_id, code |-> r.code,
                          out |-> r.out, calls |-> r.calls, time |-> now + 1]
    /\ now' = now + 1
    /\ UNCHANGED <<rendered, conc>>

Update ==
    /\ now < MaxCalls
    /\ \E project_id \in RawIds, payload \in UpdatePayloads :
          \E r \in {update_project(store, project_id, payload, now + 1)} :
              /\ store' = r.store
              /\ last' = [op |-> "update", raw |-> project_id, payload |-> payload,
                          code |-> r.code, out |-> r.out, calls |-> r.calls,
                          time |-> now + 1]
    /\ now' = now + 1
    /\ UNCHANGED <<rendered, conc>>

Render ==
    /\ now < MaxCalls
    /\ \E project_id \in RawIds :
          \E r \in {render_video(store, project_id)} :
              /\ store' = r.store
              /\ last' = [op |-> "render", raw |-> project_id, code |-> r.code,
                          out |-> r.out, calls |-> r.calls, time |-> now + 1]
              /\ rendered' =
                    IF r.code = 200
                    THEN [rendered EXCEPT ![ObjectId(project_id)] =
                                @ \cup {r.out.output_url}]
                    ELSE rendered
    /\ now' = now + 1
    /\ UNCHANGED conc

Next == Create \/ Get \/ Update \/ Render

Spec == Init /\ [][Next]_vars

\* ------------------------------------------------------------ two requests at once

\* The two requests in flight.
Callers == {"A", "B"}

\* Identifier strings that resolve to project oid.
RawIdsOf(oid) == {raw \in RawIds : ObjectIdValid(raw) /\ ObjectId(raw) = oid}

\* The update and render requests a client can send for project oid.
RequestsOn(oid) ==
    {[op |-> "update", raw |-> raw, payload |-> payload, pc |-> "start",
      project |-> PyNone, code |-> 0] :
        raw \in RawIdsOf(oid), payload \in UpdatePayloads}
    \cup {[op |-> "render", raw |-> raw, payload |-> <<>>, pc |-> "start",
           project |-> PyNone, code |-> 0] : raw \in RawIdsOf(oid)}

\* One project has been created; two requests on it arrive together.
ConcInit ==
    \E project \in CreatePayloads, oid \in OidPool :
        /\ store = create_project(<<>>, oid, project, 1).store
        /\ now = 1
        /\ last = NoCall
        /\ rendered = [o \in OidPool |-> {}]
        /\ \E calls \in [Callers -> RequestsOn(oid)] :
              conc = [calls |-> calls, order |-> <<>>, store0 |-> store]

Finish(c, code, wrote) ==
    conc' = [conc EXCEPT !.calls[c].pc = "done", !.calls[c].code = code,
                         !.order = IF wrote THEN Append(@, <<c, now + 1>>) ELSE @]

\* update_project has one store call, find_one_and_update: the handler is
\* one step.
UpdateCall(c) ==
    /\ conc.calls[c].op = "update" /\ conc.calls[c].pc = "start"
    /\ \E r \in {update_project(store, conc.calls[c].raw, conc.calls[c].payload,
                                 now + 1)} :
          /\ store' = r.store
          /\ Finish(c, r.code, r.code = 200)
    /\ now' = now + 1
    /\ UNCHANGED <<last, rendered>>

\* render_video up to its find_one (lines 127-135).
RenderFind(c) ==
    /\ conc.calls[c].op = "render" /\ conc.calls[c].pc = "start"
    /\ IF ~ObjectIdValid(conc.calls[c].raw)
       THEN Finish(c, 400, FALSE)
       ELSE \E project \in {FindOne(store, ObjectId(conc.calls[c].raw))} :
              IF project = PyNone
              THEN Finish(c, 404, FALSE)
              ELSE conc' = [conc EXCEPT !.calls[c].pc = "found",
                                        !.calls[c].project = project]
    /\ UNCHANGED <<store, now, last, rendered>>

\* render_video from its update_one (lines 138-140).
RenderUpdate(c) ==
    /\ conc.calls[c].op = "render" /\ conc.calls[c].pc = "found"
    /\ store' = RenderWrite(store, conc.calls[c].raw, conc.calls[c].project)
    /\ rendered' = [rendered EXCEPT ![ObjectId(conc.calls[c].raw)] =
                        @ \cup {VideoUrl(conc.calls[c].raw)}]
    /\ Finish(c, 200, TRUE)
    /\ now' = now + 1
    /\ UNCHANGED last

ConcNext == \E c \in Callers : UpdateCall(c) \/ RenderFind(c) \/ RenderUpdate(c)

ConcSpec == ConcInit /\ [][ConcNext]_vars

\* ------------------------------------------------------------ properties

\* The identifier format of the interface: 24 characters, each a
\* hexadecimal digit.
WellFormedId(raw) ==
    /\ Len(raw) = 24
    /\ \A i \in 1..Len(raw) :
          raw[i] \in {"0", "1", "2", "3", "4", "5", "6", "7", "8", "9",
                      "a", "b", "c", "d", "e", "f", "A", "B", "C", "D", "E", "F"}

\* The project a request's identifier resolves to.
Target == ObjectId(last.raw)

\* A step is a call of update that answered 200.
UpdateSucceeded == last.op = "update" /\ last.code = 200

\* Position of a status in the graph draft -> queued -> ready.
Rank(status) == CASE status = Draft -> 0 [] status = Queued -> 1 [] status = Ready -> 2

\* C1: the project create returns, and the document it persists, have
\* status draft and no output_url, whatever the payload carries.
C1_CreateForcesDraft ==
    (last.op = "create" /\ last.code = 200) =>
        /\ last.out.status = Draft
        /\ last.out.output_url = PyNone
        /\ \E o \in DOMAIN store :
              /\ PyStr(OidStr(o)) = last.out.id
              /\ store[o].status = Draft
              /\ store[o].output_url = PyNone

\* C2: an update that sends a scenes sequence to an existing project
\* succeeds, and the stored and returned scenes are that sequence.
C2_ScenesReplaced ==
    (/\ last.op = "update"
     /\ "scenes" \in DOMAIN last.payload
     /\ last.payload.scenes # PyNone
     /\ WellFormedId(last.raw)
     /\ Target \in DOMAIN store) =>
        /\ last.code = 200
        /\ store[Target].scenes = DumpValue(last.payload.scenes)
        /\ last.out.scenes = last.payload.scenes

\* C3: all successful renders of one project return the same output_url,
\* namely https://files.example.com/videos/<id>.mp4 for the id that get
\* returns, and the stored status is ready after each.
C3_RenderIdempotent ==
    /\ \A o \in DOMAIN store : rendered[o] \subseteq {VideoUrl(OidStr(o))}
    /\ (last.op = "render" /\ last.code = 200) => store[Target].status = Ready

\* C4: a project's output_url is set exactly when a render of it has
\* succeeded, and a set output_url is never cleared.
C4_OutputUrlIffRendered ==
    [][\A o \in DOMAIN store' :
          /\ (store'[o].output_url # PyNone) <=> (rendered'[o] # {})
          /\ (o \in DOMAIN store /\ store[o].output_url # PyNone)
                => store'[o].output_url # PyNone]_vars

\* C5 as stated: no call moves a stored status to an earlier state of
\* draft -> queued -> ready.
C5_StatusOnlyForward ==
    [][\A o \in DOMAIN store :
          Rank(store'[o].status) >= Rank(store[o].status)]_vars

\* C5 amended: a stored status changes only by a render of that project,
\* which sets ready, or by an update of that project whose payload carries
\* the new status; so only such an update moves a status backward.
C5_StatusChangesOnlyByRenderOrExplicitUpdate ==
    [][\A o \in DOMAIN store :
          store'[o].status # store[o].status =>
              /\ last'.code = 200
              /\ ObjectId(last'.raw) = o
              /\ \/ last'.op = "render" /\ store'[o].status = Ready
                 \/ /\ last'.op = "update"
                    /\ "status" \in DOMAIN last'.payload
                    /\ last'.payload.status = store'[o].status]_vars

\* C5 witness: an update carrying status draft has moved a rendered (ready)
\* project back to draft.
C5_Witness ==
    /\ UpdateSucceeded
    /\ "status" \in DOMAIN last.payload
    /\ last.payload.status = Draft
    /\ rendered[Target] # {}
    /\ store[Target].status = Draft

\* C6: a successful update or render stamps the project's updated_at with
\* the time of the call.
C6_UpdatedAtRefreshed ==
    (last.op \in {"update", "render"} /\ last.code = 200) =>
        store[Target].updated_at = last.time

\* C7: a successful update keeps every field of the project that the
\* payload omits or sends as null (updated_at, which the server stamps,
\* aside), keeps its set of fields, and keeps every other project.
C7_UpdateKeepsUnsentFields ==
    [][UpdateSucceeded' =>
          LET o == ObjectId(last'.raw)
              sent == {k \in DOMAIN last'.payload : last'.payload[k] # PyNone}
          IN  /\ DOMAIN store' = DOMAIN store
              /\ DOMAIN store'[o] = DOMAIN store[o]
              /\ \A k \in DOMAIN store[o] \ (sent \cup {"updated_at"}) :
                    store'[o][k] = store[o][k]
              /\ \A q \in DOMAIN store \ {o} : store'[q] = store[q]]_vars

\* C7 witness: an update of the title alone, on a project with scenes,
\* music, status ready and an output_url, beside another project.
C7_Witness ==
    /\ UpdateSucceeded
    /\ DOMAIN last.payload = {"title"}
    /\ store[Target].title = Title2
    /\ store[Target].scenes.items # <<>>
    /\ store[Target].music = Track
    /\ store[Target].status = Ready
    /\ store[Target].output_url = ClientUrl
    /\ Cardinality(DOMAIN store) = 2

RunAlone(st, call, t) ==
    IF call.op = "update" THEN update_project(st, call.raw, call.payload, t).store
    ELSE render_video(st, call.raw).store

\* The store after the requests of runs, each a pair <<caller, time>>, ran
\* one after another from store st.
RECURSIVE SerialStore(_, _)
SerialStore(st, runs) ==
    IF runs = <<>> THEN st
    ELSE SerialStore(RunAlone(st, conc.calls[Head(runs)[1]], Head(runs)[2]),
                     Tail(runs))

\* The orders in which all the requests can run one after another, at
\* successive times.
SerialOrders ==
    {runs \in [1..Cardinality(Callers) -> Callers \X {0}] :
        \A c \in Callers : \E i \in DOMAIN runs : runs[i][1] = c}

AllDone == \A c \in Callers : conc.calls[c].pc = "done"

\* The part of a document the requests write (updated_at is the time of
\* the last update, which depends on when the requests run).
Written(doc) == [k \in DOMAIN doc \ {"updated_at"} |-> doc[k]]

C9_UnknownIdNotFound ==
    [][(/\ last'.op \in {"get", "update", "render"}
        /\ WellFormedId(last'.raw)
        /\ ObjectId(last'.raw) \notin DOMAIN store) =>
          /\ last'.code = 404
          /\ store' = store]_vars

====
